---- MODULE Spec2Model ----
(***************************************************************************)
(* Model of src/interp.rs: the double-write RollingBuffer<T, N> and the    *)
(* polyphase interpolator InterpF<ACTIVE_TAPS, FACTOR, F>.                 *)
(*                                                                         *)
(* Numbers.  A frame F is modelled as one integer sample.  The f32 filter  *)
(* coefficients are modelled in fixed point: a coefficient c is the        *)
(* integer nearest to c * Scale.  f64::sin and f64::cos are only ever      *)
(* evaluated at whole multiples of PI/48 (the arguments are 2*PI*j/48 and  *)
(* m*PI/FACTOR with FACTOR a divisor of 48), so they are modelled by a     *)
(* quarter-wave table at that resolution.  The fixed-point kernel is       *)
(* within 2 units (2/Scale) of the f32 kernel for every coefficient.       *)
(***************************************************************************)
EXTENDS Integers, Sequences, FiniteSets, TLC

TAPS == 48

\* one unit of a fixed-point coefficient is 1/Scale
Scale == 10000

\* std::f64::consts::PI in units of 1/Scale
PiS == 31416

\* bounds of the exploration
MaxCalls == 4

MaxFrame == 1

MaxScalar == 2

\* the input frames handed to interpolate
Frames == (0 - MaxFrame)..MaxFrame

\* the scalars k of the linearity experiment
Scalars == {0 - 1, MaxScalar}

\* the instantiations <<ACTIVE_TAPS, FACTOR>> explored: every pair whose
\* product is TAPS, and pairs whose product is not TAPS
Configs ==
  {<<1, 48>>, <<2, 24>>, <<3, 16>>, <<4, 12>>, <<6, 8>>, <<8, 6>>,
   <<12, 4>>, <<16, 3>>, <<24, 2>>, <<48, 1>>,
   <<4, 4>>, <<2, 12>>, <<24, 4>>, <<0, 48>>}

VARIABLES
  ACTIVE_TAPS,  \* const generic parameter of the instantiation
  FACTOR,       \* const generic parameter of the instantiation
  pc,           \* position inside InterpF::new, then "ready" or "panicked"
  built,        \* the construction stages of InterpF::new that have run
  interp,       \* the InterpF value: [filter, buffer |-> [buf, position]]
  output,       \* the array returned by the last interpolate call
  view,         \* the array last returned by RollingBuffer::as_ref
  rd,           \* slots of the current buffer read by the last as_ref
  wr,           \* slots of the current buffer written by the last push_front
  pushed,       \* history: frames pushed since new() or the last reset()
  calls,        \* number of interpolate and reset calls so far
  lastop,       \* the last operation applied to the interpolator
  k,            \* the scalar of the linearity experiment
  scaled,       \* a second InterpF, fed k * frame
  scaled_out,   \* the last output of scaled
  hasFresh,     \* TRUE once a reset has happened
  fresh,        \* an InterpF constructed by new() at the time of the reset
  fresh_out     \* the last output of fresh

vars == <<ACTIVE_TAPS, FACTOR, pc, built, interp, output, view, rd, wr,
          pushed, calls, lastop, k, scaled, scaled_out, hasFresh, fresh,
          fresh_out>>

----------------------------------------------------------------------------
(* Arithmetic helpers                                                      *)

Abs(x) == IF x < 0 THEN 0 - x ELSE x

\* a / b rounded to the nearest integer (the rounding of `as f32`)
RoundDiv(a, b) ==
  LET aa == IF b < 0 THEN 0 - a ELSE a
      bb == Abs(b)
  IN  (aa + (bb \div 2)) \div bb

\* sin(i * PI / 48) * Scale for i in 0..24
SinTab ==
  <<0, 654, 1305, 1951, 2588, 3214, 3827, 4423, 5000, 5556, 6088, 6593,
    7071, 7518, 7934, 8315, 8660, 8969, 9239, 9469, 9659, 9808, 9914, 9979,
    10000>>

\* f64::sin(u * PI / 48) * Scale for any integer u
Sin48(u) ==
  LET r == u % 96
  IN  IF r <= 24 THEN SinTab[r + 1]
      ELSE IF r <= 48 THEN SinTab[(48 - r) + 1]
      ELSE IF r <= 72 THEN 0 - SinTab[(r - 48) + 1]
      ELSE 0 - SinTab[(96 - r) + 1]

\* f64::cos(u * PI / 48) * Scale for any integer u
Cos48(u) == Sin48(u + 24)

----------------------------------------------------------------------------
(* RollingBuffer<T, N>                                                     *)

\* the capacity assertion without the factor 2
RBNewAssertNoDouble(N) == N <= TAPS

\* assert!(N * 2 <= TAPS)
RBNewAssert(N) == N * 2 <= TAPS

\* RollingBuffer::new once the assertion has passed
RBNew(N) == [buf |-> [i \in 0..(TAPS - 1) |-> 0], position |-> N]

\* the cursor after the decrement-or-wrap of push_front
RBPushFrontPos(rb, N) ==
  IF rb.position = 0 THEN N - 1 ELSE rb.position - 1

\* the two slots push_front writes without a bounds check
RBPushFrontIdx(rb, N) ==
  {RBPushFrontPos(rb, N), RBPushFrontPos(rb, N) + N}

\* push_front without the write to the shadow slot
RBPushFrontNoShadow(rb, N, v) ==
  LET pos == RBPushFrontPos(rb, N)
  IN  [buf |-> [i \in DOMAIN rb.buf |-> IF i = pos THEN v ELSE rb.buf[i]],
       position |-> pos]

\* RollingBuffer::push_front (a write outside the storage changes no slot
\* of the storage)
RBPushFront(rb, N, v) ==
  LET pos == RBPushFrontPos(rb, N)
  IN  [buf |-> [i \in DOMAIN rb.buf |->
                  IF i = pos \/ i = pos + N THEN v ELSE rb.buf[i]],
       position |-> pos]

\* as_ref starting at the shadow slot of the cursor
RBAsRefStartShadow(rb, N) == rb.position + N

\* the first slot as_ref exposes: get_unchecked(self.position)
RBAsRefStart(rb, N) == rb.position

\* the slots as_ref exposes without a bounds check: [T; N] from the start
RBAsRefIdx(rb, N) == {RBAsRefStart(rb, N) + i : i \in 0..(N - 1)}

\* a slot of the storage; g is what a read outside the storage yields
Slot(buf, i, g) == IF i \in DOMAIN buf THEN buf[i] ELSE g

\* RollingBuffer::as_ref: the N slots starting at the cursor
RBAsRef(rb, N, g) ==
  [i \in 0..(N - 1) |-> Slot(rb.buf, RBAsRefStart(rb, N) + i, g)]

\* the values a read outside the storage may yield
Garbage(idx) == IF idx \subseteq 0..(TAPS - 1) THEN {0} ELSE Frames

----------------------------------------------------------------------------
(* InterpF<ACTIVE_TAPS, FACTOR, F>                                         *)

\* ALMOST_ZERO is 1 / AlmostZeroInv
AlmostZeroInv == 1000000

\* the sine table has HalfTurn entries per PI
HalfTurn == 48

\* the parameter assertion as an upper bound only
NewAssertAtMost(A, F) == A * F <= TAPS

\* assert_eq!(ACTIVE_TAPS * FACTOR, TAPS)
NewAssert(A, F) == A * F = TAPS

\* let window = TAPS + 1; let window = (window - 1) as f64
Window == (TAPS + 1) - 1

\* w = 0.5 * (1.0 - cos(2.0 * PI * j / window))
Hanning(j) == RoundDiv(Scale - Cos48((2 * HalfTurn * j) \div Window), 2)

\* the coefficient with flat index j: the windowed sinc, or the window
\* value itself where m.abs() > ALMOST_ZERO fails
Coeff(j, F) ==
  LET w == Hanning(j)
      m == j - (Window \div 2)
  IN  IF Abs(m) * AlmostZeroInv > 1
        THEN RoundDiv(w * Sin48(m * (HalfTurn \div F)) * F, m * PiS)
        ELSE w

\* filter.iter_mut().flat_map(|x| x.iter_mut()).enumerate(): row t, column
\* p of the matrix has flat index t * FACTOR + p
NewFilter(A, F) ==
  [t \in 0..(A - 1) |-> [p \in 0..(F - 1) |-> Coeff(t * F + p, F)]]

\* the value of the InterpF variables before construction has produced them
NoInterp == [filter |-> <<>>, buffer |-> [buf |-> <<>>, position |-> 0]]

\* FrameAccumulator::scale_add: acc += coeff * frame
scale_add(acc, frame, coeff) == acc + coeff * frame

\* an output array that does not start from the default frame
NonZeroOutput(F) == [p \in 0..(F - 1) |-> 1]

\* let mut output: [F; FACTOR] = [Default::default(); FACTOR]
ZeroOutput(F) == [p \in 0..(F - 1) |-> 0]

\* the two nested zip loops of interpolate, from row t on
RECURSIVE TapLoop(_, _, _, _, _, _)
TapLoop(out, filt, buf, t, A, F) ==
  IF t >= A
    THEN out
    ELSE TapLoop([p \in 0..(F - 1) |-> scale_add(out[p], buf[t], filt[t][p])],
                 filt, buf, t + 1, A, F)

\* interpolate with the coefficients of a row zipped in reverse
InterpolateOutputSwapPhase(filt, buf, A, F) ==
  TapLoop(ZeroOutput(F),
          [t \in 0..(A - 1) |-> [p \in 0..(F - 1) |-> filt[t][(F - 1) - p]]],
          buf, 0, A, F)

\* interpolate scanning the view from its oldest frame
InterpolateOutputOldestFirst(filt, buf, A, F) ==
  TapLoop(ZeroOutput(F), filt, [t \in 0..(A - 1) |-> buf[(A - 1) - t]],
          0, A, F)

\* the output array interpolate computes from the filter and the view
InterpolateOutput(filt, buf, A, F) == TapLoop(ZeroOutput(F), filt, buf, 0, A, F)

\* InterpF::interpolate on the value self: the new value of self, the
\* returned array and the view it was computed from
Interpolate(self, frame, A, F, g) ==
  LET b == RBPushFront(self.buffer, A, frame)
      v == RBAsRef(b, A, g)
  IN  [self |-> [filter |-> self.filter, buffer |-> b],
       out  |-> InterpolateOutput(self.filter, v, A, F),
       view |-> v]

\* reset that rewinds the cursor and keeps the slots
InterpResetKeepSlots(self, N) ==
  [filter |-> self.filter,
   buffer |-> [buf |-> self.buffer.buf, position |-> N]]

\* InterpF::reset on the value self
InterpReset(self, N) == [filter |-> self.filter, buffer |-> RBNew(N)]

----------------------------------------------------------------------------
(* The state machine                                                       *)

Init ==
  /\ \E c \in Configs : ACTIVE_TAPS = c[1] /\ FACTOR = c[2]
  /\ k \in Scalars
  /\ pc = "new"
  /\ built = {}
  /\ interp = NoInterp
  /\ output = <<>>
  /\ view = <<>>
  /\ rd = {}
  /\ wr = {}
  /\ pushed = <<>>
  /\ calls = 0
  /\ lastop = "none"
  /\ scaled = NoInterp
  /\ scaled_out = <<>>
  /\ hasFresh = FALSE
  /\ fresh = NoInterp
  /\ fresh_out = <<>>

\* InterpF::new, first statement: the assertion on the generic parameters
NewCheck ==
  /\ pc = "new"
  /\ pc' = IF NewAssert(ACTIVE_TAPS, FACTOR) THEN "filter" ELSE "panicked"
  /\ UNCHANGED <<ACTIVE_TAPS, FACTOR, built, interp, output, view, rd, wr,
                 pushed, calls, lastop, k, scaled, scaled_out, hasFresh,
                 fresh, fresh_out>>

\* InterpF::new, the loop that fills the coefficient matrix
NewCoefficients ==
  /\ pc = "filter"
  /\ pc' = "buffer"
  /\ built' = built \cup {"filter"}
  /\ interp' = [interp EXCEPT !.filter = NewFilter(ACTIVE_TAPS, FACTOR)]
  /\ UNCHANGED <<ACTIVE_TAPS, FACTOR, output, view, rd, wr, pushed, calls,
                 lastop, k, scaled, scaled_out, hasFresh, fresh, fresh_out>>

\* InterpF::new, the struct expression: RollingBuffer::new() asserts and
\* either panics (the filter is dropped) or the InterpF is returned; the
\* second interpolator of the linearity experiment is built the same way
NewBuffer ==
  /\ pc = "buffer"
  /\ IF RBNewAssert(ACTIVE_TAPS)
       THEN /\ pc' = "ready"
            /\ built' = built \cup {"buffer"}
            /\ interp' = [interp EXCEPT !.buffer = RBNew(ACTIVE_TAPS)]
            /\ scaled' = [filter |-> NewFilter(ACTIVE_TAPS, FACTOR),
                          buffer |-> RBNew(ACTIVE_TAPS)]
       ELSE /\ pc' = "panicked"
            /\ built' = built
            /\ interp' = NoInterp
            /\ scaled' = scaled
  /\ lastop' = "new"
  /\ UNCHANGED <<ACTIVE_TAPS, FACTOR, output, view, rd, wr, pushed, calls,
                 k, scaled_out, hasFresh, fresh, fresh_out>>

\* interpolate(frame) on the interpolator, interpolate(k * frame) on the
\* scaled one and, after a reset, interpolate(frame) on the fresh one
InterpolateCall ==
  /\ pc = "ready"
  /\ calls < MaxCalls
  /\ \E frame \in Frames :
       \E g \in Garbage(RBAsRefIdx(RBPushFront(interp.buffer, ACTIVE_TAPS, frame),
                                   ACTIVE_TAPS)) :
         LET r == Interpolate(interp, frame, ACTIVE_TAPS, FACTOR, g)
             s == Interpolate(scaled, k * frame, ACTIVE_TAPS, FACTOR, k * g)
             f == Interpolate(fresh, frame, ACTIVE_TAPS, FACTOR, g)
         IN  /\ interp' = r.self
             /\ output' = r.out
             /\ view' = r.view
             /\ wr' = RBPushFrontIdx(interp.buffer, ACTIVE_TAPS)
             /\ rd' = RBAsRefIdx(r.self.buffer, ACTIVE_TAPS)
             /\ pushed' = Append(pushed, frame)
             /\ scaled' = s.self
             /\ scaled_out' = s.out
             /\ fresh' = IF hasFresh THEN f.self ELSE fresh
             /\ fresh_out' = IF hasFresh THEN f.out ELSE fresh_out
  /\ calls' = calls + 1
  /\ lastop' = "interpolate"
  /\ UNCHANGED <<ACTIVE_TAPS, FACTOR, pc, built, k, hasFresh>>

\* reset() on the interpolator and on the scaled one; a fresh interpolator
\* is constructed by new() to compare with from here on
ResetCall ==
  /\ pc = "ready"
  /\ calls < MaxCalls
  /\ interp' = InterpReset(interp, ACTIVE_TAPS)
  /\ scaled' = InterpReset(scaled, ACTIVE_TAPS)
  /\ hasFresh' = TRUE
  /\ fresh' = [filter |-> NewFilter(ACTIVE_TAPS, FACTOR),
               buffer |-> RBNew(ACTIVE_TAPS)]
  /\ fresh_out' = <<>>
  /\ pushed' = <<>>
  /\ calls' = calls + 1
  /\ rd' = {}
  /\ wr' = {}
  /\ lastop' = "reset"
  /\ UNCHANGED <<ACTIVE_TAPS, FACTOR, pc, built, output, view, k, scaled_out>>

\* RollingBuffer::as_ref on the interpolator's buffer, with no push
AsRefCall ==
  /\ pc = "ready"
  /\ \E g \in Garbage(RBAsRefIdx(interp.buffer, ACTIVE_TAPS)) :
       view' = RBAsRef(interp.buffer, ACTIVE_TAPS, g)
  /\ rd' = RBAsRefIdx(interp.buffer, ACTIVE_TAPS)
  /\ UNCHANGED <<ACTIVE_TAPS, FACTOR, pc, built, interp, output, wr, pushed,
                 calls, lastop, k, scaled, scaled_out, hasFresh, fresh,
                 fresh_out>>

Next ==
  \/ NewCheck
  \/ NewCoefficients
  \/ NewBuffer
  \/ InterpolateCall
  \/ ResetCall
  \/ AsRefCall

Spec == Init /\ [][Next]_vars

----------------------------------------------------------------------------
(* Helpers of the properties                                               *)

\* the frame pushed i pushes ago (0 is the last one), the default frame
\* when fewer than i + 1 frames were pushed since new() or reset()
Ago(i) == IF i < Len(pushed) THEN pushed[Len(pushed) - i] ELSE 0

\* sum over rows 0..t of filt[row][p] * frames[row]
RECURSIVE Dot(_, _, _, _)
Dot(filt, frames, p, t) ==
  IF t < 0 THEN 0 ELSE filt[t][p] * frames[t] + Dot(filt, frames, p, t - 1)

\* sum of column p of the tap matrix
ColumnSum(p) ==
  Dot(interp.filter, [t \in 0..(ACTIVE_TAPS - 1) |-> 1], p, ACTIVE_TAPS - 1)

\* the last n pushed frames all equal c
LastAllEqual(n, c) ==
  /\ n >= 1
  /\ Len(pushed) >= n
  /\ \A i \in 0..(n - 1) : Ago(i) = c

\* the construction succeeds for the instantiation
Constructible ==
  ACTIVE_TAPS * FACTOR = TAPS /\ 2 * ACTIVE_TAPS <= TAPS

----------------------------------------------------------------------------
(* Properties                                                              *)

\* C1: after any pushes since new() or reset(), element i of the N-element
\* view as_ref returns is the frame pushed i pushes ago for i below the
\* number of pushes, and the default frame for every other i < N.
C1_ViewMostRecentFirst ==
  pc = "ready" =>
    LET v == RBAsRef(interp.buffer, ACTIVE_TAPS, 0)
    IN  /\ DOMAIN v = 0..(ACTIVE_TAPS - 1)
        /\ \A i \in 0..(ACTIVE_TAPS - 1) : v[i] = Ago(i)

\* C1 witness: the cursor has wrapped (more than N pushes) on a buffer of
\* at least two slots, the last two frames being different
C1_Witness ==
  /\ pc = "ready"
  /\ ACTIVE_TAPS >= 2
  /\ Len(pushed) > ACTIVE_TAPS
  /\ Ago(0) # Ago(1)

\* C2: interpolate(frame) pushes frame first and returns FACTOR frames,
\* phase p being the sum over t of filter[t][p] * view[t], with view the
\* view after the push (view[0] is frame).
C2_InterpolateIsColumnDot ==
  lastop = "interpolate" =>
    /\ view = RBAsRef(interp.buffer, ACTIVE_TAPS, 0)
    /\ view[0] = pushed[Len(pushed)]
    /\ interp.buffer.buf[interp.buffer.position] = pushed[Len(pushed)]
    /\ DOMAIN output = 0..(FACTOR - 1)
    /\ \A p \in 0..(FACTOR - 1) :
         output[p] = Dot(interp.filter, view, p, ACTIVE_TAPS - 1)

\* C2 witness: a call that returned a non-zero phase from several frames
C2_Witness ==
  /\ lastop = "interpolate"
  /\ FACTOR >= 2
  /\ ACTIVE_TAPS >= 2
  /\ Len(pushed) >= 2
  /\ Ago(0) # 0
  /\ Ago(1) # 0
  /\ \E p \in 0..(FACTOR - 1) : output[p] # 0

\* C3: after reset() the interpolator equals one built by new(): same
\* filter, every slot default, cursor ACTIVE_TAPS; from then on both return
\* the same outputs call by call.
C3_ResetIsFresh ==
  hasFresh =>
    /\ interp = fresh
    /\ interp.filter = NewFilter(ACTIVE_TAPS, FACTOR)
    /\ lastop = "reset" =>
         /\ \A i \in 0..(TAPS - 1) : interp.buffer.buf[i] = 0
         /\ interp.buffer.position = ACTIVE_TAPS
    /\ lastop = "interpolate" => output = fresh_out

\* C3 witness: interpolate calls, then a reset, then two more calls with
\* a non-zero output
C3_Witness ==
  /\ hasFresh
  /\ lastop = "interpolate"
  /\ Len(pushed) >= 2
  /\ calls >= Len(pushed) + 2
  /\ \E p \in 0..(FACTOR - 1) : output[p] # 0

\* C4: with ACTIVE_TAPS * FACTOR # TAPS, new() is rejected at its first
\* step: no coefficient is computed, no buffer is built, nothing is returned.
C4_ProductAssertedFirst ==
  ACTIVE_TAPS * FACTOR # TAPS =>
    /\ pc \in {"new", "panicked"}
    /\ built = {}
    /\ interp = NoInterp

\* C4 witness: a construction rejected for its product
C4_Witness ==
  /\ pc = "panicked"
  /\ ACTIVE_TAPS * FACTOR # TAPS

\* C5: every column of the tap matrix sums to unity, and once the same
\* frame c was fed ACTIVE_TAPS times in a row every output phase equals c
\* (up to the rounding of the ACTIVE_TAPS fixed-point coefficients).
C5_UnityGainDC ==
  pc = "ready" =>
    /\ \A p \in 0..(FACTOR - 1) :
         Abs(ColumnSum(p) - Scale) <= 2 * ACTIVE_TAPS
    /\ \A c \in Frames :
         (lastop = "interpolate" /\ LastAllEqual(ACTIVE_TAPS, c)) =>
           \A p \in 0..(FACTOR - 1) :
             Abs(output[p] - c * Scale) <= 2 * ACTIVE_TAPS * Abs(c)

\* C6: feeding k * x_1 .. k * x_n to a second interpolator started like the
\* first gives k times the outputs of the first, for every call and phase.
C6_Linearity ==
  lastop = "interpolate" =>
    /\ DOMAIN scaled_out = DOMAIN output
    /\ \A p \in 0..(FACTOR - 1) : scaled_out[p] = k * output[p]

\* C6 witness: a call with a non-zero output after several non-zero frames
C6_Witness ==
  /\ lastop = "interpolate"
  /\ Len(pushed) >= 3
  /\ Ago(0) # 0
  /\ Ago(2) # 0
  /\ \E p \in 0..(FACTOR - 1) : output[p] # 0 /\ scaled_out[p] # output[p]

\* C7: every unchecked access stays inside the TAPS slots: push_front
\* writes exactly position and position + N, both below TAPS, and as_ref
\* reads exactly position .. position + N - 1 with position + N <= TAPS,
\* also before any push.
C7_UncheckedInBounds ==
  pc = "ready" =>
    /\ wr \subseteq 0..(TAPS - 1)
    /\ rd \subseteq 0..(TAPS - 1)
    /\ RBAsRefIdx(interp.buffer, ACTIVE_TAPS) \subseteq 0..(TAPS - 1)
    /\ RBPushFrontIdx(interp.buffer, ACTIVE_TAPS) \subseteq 0..(TAPS - 1)
    /\ interp.buffer.position + ACTIVE_TAPS <= TAPS
    /\ lastop = "interpolate" =>
         wr = {interp.buffer.position, interp.buffer.position + ACTIVE_TAPS}
    /\ rd # {} =>
         rd = interp.buffer.position ..
                (interp.buffer.position + ACTIVE_TAPS - 1)

\* C7 witness: as_ref called before any push on the largest buffer, whose
\* view ends at the last slot of the storage
C7_Witness ==
  /\ pc = "ready"
  /\ Len(pushed) = 0
  /\ rd # {}
  /\ (TAPS - 1) \in rd

\* C8: in every reachable state of a RollingBuffer<N>, also directly after
\* new() and after a reset, position < N.
C8_PositionBelowN ==
  pc = "ready" => interp.buffer.position < ACTIVE_TAPS

\* C9 as stated: the first row of the tap matrix is applied to the oldest
\* of the ACTIVE_TAPS buffered frames and the last row to the frame just
\* pushed.
C9_OldestFirst ==
  lastop = "interpolate" =>
    \A p \in 0..(FACTOR - 1) :
      output[p] = Dot(interp.filter,
                      [t \in 0..(ACTIVE_TAPS - 1) |-> Ago((ACTIVE_TAPS - 1) - t)],
                      p, ACTIVE_TAPS - 1)

\* C9 amended: each output phase weights the buffered frames newest first:
\* row t of the tap matrix is applied to the frame pushed t calls ago, the
\* first row to the frame just pushed and the last row to the oldest.
C9_NewestFirst ==
  lastop = "interpolate" =>
    \A p \in 0..(FACTOR - 1) :
      output[p] = Dot(interp.filter,
                      [t \in 0..(ACTIVE_TAPS - 1) |-> Ago(t)],
                      p, ACTIVE_TAPS - 1)

\* C9 witness: a call whose frame differs from the previous one and whose
\* output differs from the oldest-first weighting
C9_Witness ==
  /\ lastop = "interpolate"
  /\ ACTIVE_TAPS >= 2
  /\ Ago(0) # Ago(1)
  /\ ~ C9_OldestFirst

\* C10: new() returns an interpolator exactly when ACTIVE_TAPS * FACTOR =
\* 48 and 2 * ACTIVE_TAPS <= 48; <<48, 1>> passes the product assertion and
\* is rejected by the buffer's capacity assertion, nothing being returned.
C10_ConstructibleExactly ==
  /\ pc = "ready" => Constructible
  /\ pc = "panicked" => ~ Constructible
  /\ (ACTIVE_TAPS = TAPS /\ FACTOR = 1) =>
       /\ pc # "ready"
       /\ pc = "panicked" =>
            /\ built = {"filter"}
            /\ interp = NoInterp

\* C10 witness: <<48, 1>> rejected after its coefficients were computed
C10_Witness ==
  /\ pc = "panicked"
  /\ ACTIVE_TAPS = TAPS
  /\ FACTOR = 1
  /\ "filter" \in built

====
